---- MODULE Spec2Model ----
(***************************************************************************)
(* upnp-daemon, src/src/lib.rs: one call of run(options) locates a gateway *)
(* (find_gateway_and_addr / find_gateway_with_bind_addr) and asks it to    *)
(* add a port mapping, deleting a mapping that is in the way and retrying  *)
(* once.  The gateway devices, the interface enumeration and the SSDP      *)
(* search are the environment: every network call is one step whose answer *)
(* is chosen by the environment.                                           *)
(***************************************************************************)
EXTENDS Integers, Sequences, FiniteSets, TLC

\* ------------------------------------------------------------------ bounds
\* longest interface list get_if_addrs() returns
MaxIfaces == 2
\* calls of run() in one behaviour
MaxRuns == 2
\* longest mapping list the daemon loads
MaxEntries == 2

\* ------------------------------------------------------------ value domains
\* enum PortMappingProtocol, as read from the protocol column
Protocols == {"TCP", "UDP"}
\* igd::PortMappingProtocol, what the gateway is called with
IgdProtocols == {"igd::TCP", "igd::UDP"}
\* the port numbers of the example configuration (lib.rs:106-107)
Ports == {12345, 12346}
Durations == {60}
Comments == {"Test 1"}
Gateways == {"g1", "g2"}

\* std::net::IpAddr: V4 addresses are their four octets, V6 ones their groups
IpA == [v |-> 4, a |-> <<192, 168, 0, 10>>]
IpB == [v |-> 4, a |-> <<10, 0, 0, 5>>]
IpLo == [v |-> 4, a |-> <<127, 0, 0, 1>>]
IpForeign == [v |-> 4, a |-> <<192, 168, 0, 99>>]
Ip6 == [v |-> 6, a |-> <<0, 0, 0, 0, 0, 0, 0, 1>>]

\* the address column of the mapping file: absent, or a literal
NoAddress == "None"
AddressLiterals == {"192.168.0.10", "10.0.0.5", "[::1]", "router.local"}

Options ==
  [address : {NoAddress} \cup AddressLiterals, port : Ports, protocol : Protocols,
   duration : Durations, comment : Comments]

AddrParseError == [v |-> 0, a |-> <<>>]

\* <IpAddr as FromStr>: the literals that are IP addresses (an IPv6 address
\* is written in brackets inside a socket address)
ParseIp(text) ==
  CASE text = "192.168.0.10" -> IpA
    [] text = "10.0.0.5" -> IpB
    [] text = "127.0.0.1" -> IpLo
    [] text = "[::1]" -> Ip6
    [] OTHER -> AddrParseError

\* <IpAddr as Display>
DisplayIp(ip) ==
  CASE ip = IpA -> "192.168.0.10"
    [] ip = IpB -> "10.0.0.5"
    [] ip = IpLo -> "127.0.0.1"
    [] ip = IpForeign -> "192.168.0.99"
    [] OTHER -> "::1"

\* format!("{}:{}", addr, port): the text handed to parse()
FormatAddrPort(text, p) == <<text, ":", p>>

\* <SocketAddr as FromStr>::from_str
ParseSocketAddr(s) ==
  LET ip == ParseIp(s[1])
  IN  IF ip = AddrParseError \/ s[2] # ":" \/ s[3] \notin 0..65535
        THEN [kind |-> "Err", ip |-> AddrParseError, port |-> 0]
        ELSE [kind |-> IF ip.v = 4 THEN "V4" ELSE "V6", ip |-> ip, port |-> s[3]]

NoSocket == [kind |-> "None", ip |-> AddrParseError, port |-> 0]

\* get_if_addrs::Interface
Interfaces ==
  { [loopback |-> TRUE, ip |-> IpLo],
    [loopback |-> FALSE, ip |-> Ip6],
    [loopback |-> FALSE, ip |-> IpA],
    [loopback |-> FALSE, ip |-> IpB] }

RECURSIVE SeqsUpTo(_, _)
SeqsUpTo(S, n) ==
  IF n = 0 THEN {<<>>}
  ELSE LET shorter == SeqsUpTo(S, n - 1)
       IN  shorter \cup {Append(s, x) : s \in {t \in shorter : Len(t) = n - 1}, x \in S}

IfaceLists == SeqsUpTo(Interfaces, MaxIfaces)

\* the gateway that answers a search bound to a local address, when one does
GatewayOf(ip) == IF ip = IpB THEN "g2" ELSE "g1"

\* ------------------------------------------------------------- the gateway
\* a row of a gateway's port mapping table
Mapping(proto, eport, sock, dur, desc) ==
  [protocol |-> proto, external |-> eport, internal |-> [ip |-> sock.ip, port |-> sock.port],
   duration |-> dur, description |-> desc]

RowsFor(tbl, proto, eport) == {m \in tbl : m.protocol = proto /\ m.external = eport}

\* mappings another device made before the daemon ran
ForeignMappings ==
  { Mapping(pr, 12345, [ip |-> IpForeign, port |-> 8080], 0, "foreign") : pr \in IgdProtocols }

VARIABLES
  table,     \* gateway -> its port mapping table (a set of rows)
  pc,        \* where run() is
  options,   \* the argument of run()
  gateway,   \* run(): let (gateway, addr)
  addr,
  ifaces,    \* find_gateway_and_addr(): let ifaces
  idx,       \* position of the iterator over ifaces
  probes,    \* the searches issued by the current locate, in order
  calls,     \* the add_port / remove_port calls of the current run, in order
  result,    \* what run() returned, or the panic that ended it
  table0,    \* the tables when the current run started
  repeat,    \* this run repeats the previous, successful run's options
  runs       \* number of calls of run() so far

\* the daemon around run(): instance guard and reconciliation loop
VARIABLES
  proc,      \* process -> where the daemon process is
  mode,      \* process -> oneshot or continuous
  held,      \* the processes that hold the lock on the marker file
  pidfile,   \* the text in the marker file
  file,      \* the mapping list on disk
  list,      \* the mapping list loaded for the current tick
  pos,       \* number of entries of list handed to run() in this tick
  term       \* process -> a termination request is pending

daemonVars == <<proc, mode, held, pidfile, file, list, pos, term>>

vars == <<table, pc, options, gateway, addr, ifaces, idx, probes, calls, result,
          table0, repeat, runs, proc, mode, held, pidfile, file, list, pos, term>>

Procs == {"p1", "p2"}
Modes == {"oneshot", "continuous"}

\* the entries the daemon's mapping file is made of
FileEntries ==
  { [address |-> "192.168.0.10", port |-> 12345, protocol |-> "TCP", duration |-> 60,
     comment |-> "Test 1"],
    [address |-> NoAddress, port |-> 12346, protocol |-> "UDP", duration |-> 60,
     comment |-> "Test 1"] }

\* no daemon process has been started
DaemonIdle ==
  /\ proc = [p \in Procs |-> "new"]
  /\ mode = [p \in Procs |-> "continuous"]
  /\ held = {}
  /\ pidfile = <<>>
  /\ list = <<>>
  /\ pos = 0
  /\ term = [p \in Procs |-> FALSE]

NoResult == [kind |-> "None", what |-> ""]
Ok == [kind |-> "Ok", what |-> ""]
Err(e) == [kind |-> "Err", what |-> e]
Panic(msg) == [kind |-> "Panic", what |-> msg]

Init ==
  /\ table \in [Gateways -> SUBSET ForeignMappings]
  /\ pc = "idle"
  /\ options = CHOOSE o \in Options : TRUE
  /\ gateway = "none"
  /\ addr = NoSocket
  /\ ifaces = <<>>
  /\ idx = 0
  /\ probes = <<>>
  /\ calls = <<>>
  /\ result = NoResult
  /\ table0 = table
  /\ repeat = FALSE
  /\ runs = 0
  /\ DaemonIdle
  /\ file = <<>>

\* the caller invokes run(options)
Start(o) ==
  /\ pc \in {"idle", "done"}
  /\ runs < MaxRuns
  /\ runs' = runs + 1
  /\ options' = o
  /\ repeat' = (pc = "done" /\ result = Ok /\ o = options)
  /\ table0' = table
  /\ pc' = "locate"
  /\ gateway' = "none"
  /\ addr' = NoSocket
  /\ calls' = <<>>
  /\ probes' = <<>>
  /\ result' = NoResult
  /\ UNCHANGED <<table, ifaces, idx>>

\* a conversion whose two arms name the same variant
from_one_variant(proto) == "igd::TCP"

\* impl From<PortMappingProtocol> for igd::PortMappingProtocol
from(proto) == IF proto = "TCP" THEN "igd::TCP" ELSE "igd::UDP"

\* run(): let port, protocol, duration, comment
port == options.port
protocol == from(options.protocol)
duration == options.duration
comment == options.comment

\* a panic unwinds out of run(): nothing after it is executed
Abort(msg) ==
  /\ pc' = "panicked"
  /\ result' = Panic(msg)

\* igd::search_gateway(options).unwrap(): the gateway that answered, or a panic
find_gateway_with_bind_addr(bind_addr, answered) ==
  IF answered THEN GatewayOf(bind_addr.ip) ELSE "panic"

\* run(), Some(addr) arm up to the search: parse the literal with the port,
\* then search bound to it
LocateExplicit ==
  /\ pc = "locate"
  /\ options.address # NoAddress
  /\ LET parsed == ParseSocketAddr(FormatAddrPort(options.address, port))
     IN  IF parsed.kind = "Err"
           THEN /\ Abort("AddrParseError")
                /\ UNCHANGED <<gateway, addr, probes>>
           ELSE \E answered \in BOOLEAN :
                  LET g == find_gateway_with_bind_addr(parsed, answered)
                  IN  /\ probes' = Append(probes, [bind |-> parsed, answered |-> answered])
                      /\ IF g = "panic"
                            THEN /\ Abort("SearchError")
                                 /\ UNCHANGED <<gateway, addr>>
                            ELSE /\ gateway' = g
                                 /\ addr' = parsed
                                 /\ pc' = "found"
                                 /\ UNCHANGED result
  /\ UNCHANGED <<table, options, ifaces, idx, calls, table0, repeat, runs>>
  /\ UNCHANGED daemonVars

\* find_gateway_and_addr(): get_if_addrs::get_if_addrs().unwrap()
ScanStart ==
  /\ pc = "locate"
  /\ options.address = NoAddress
  /\ \/ \E l \in IfaceLists :
          /\ ifaces' = l
          /\ idx' = 1
          /\ pc' = "scan"
          /\ UNCHANGED result
     \/ /\ Abort("GetIfAddrsError")
        /\ UNCHANGED <<ifaces, idx>>
  /\ UNCHANGED <<table, options, gateway, addr, probes, calls, table0, repeat, runs>>
  /\ UNCHANGED daemonVars

\* a filter that drops the non-IPv4 interfaces only
SkippedNonIpv4Only(iface) == iface.ip.v # 4

\* the filter of the closure: interfaces that are never searched
Skipped(iface) == iface.loopback \/ iface.ip.v # 4

\* a scan that takes the last answered interface instead of the first: it
\* searches every eligible interface before it returns
ScanStepLast ==
  /\ pc = "scan"
  /\ IF idx > Len(ifaces)
       THEN /\ IF gateway = "none"
                 THEN Abort("unwrap on None")
                 ELSE pc' = "found" /\ UNCHANGED result
            /\ UNCHANGED <<gateway, addr, probes>>
            /\ idx' = IF gateway = "none" THEN idx ELSE Len(ifaces)
       ELSE LET iface == ifaces[idx]
                bind == ParseSocketAddr(FormatAddrPort(DisplayIp(iface.ip), 0))
            IN  IF iface.loopback \/ iface.ip.v # 4
                  THEN /\ idx' = idx + 1
                       /\ UNCHANGED <<pc, result, gateway, addr, probes>>
                  ELSE \E answered \in BOOLEAN :
                         /\ probes' = Append(probes, [bind |-> bind, answered |-> answered])
                         /\ idx' = idx + 1
                         /\ UNCHANGED <<pc, result>>
                         /\ IF answered
                               THEN /\ gateway' = GatewayOf(bind.ip)
                                    /\ addr' = [kind |-> "V4", ip |-> iface.ip, port |-> 0]
                               ELSE UNCHANGED <<gateway, addr>>
  /\ UNCHANGED <<table, options, ifaces, calls, table0, repeat, runs>>
  /\ UNCHANGED daemonVars

\* find_gateway_and_addr(): the iterator advances by one interface; next()
\* stops at the first Some, unwrap() panics when the interfaces run out
ScanStep ==
  /\ pc = "scan"
  /\ IF idx > Len(ifaces)
       THEN /\ Abort("unwrap on None")
            /\ UNCHANGED <<gateway, addr, idx, probes>>
       ELSE LET iface == ifaces[idx]
                bind == ParseSocketAddr(FormatAddrPort(DisplayIp(iface.ip), 0))
            IN  IF Skipped(iface)
                  THEN /\ idx' = idx + 1
                       /\ UNCHANGED <<pc, result, gateway, addr, probes>>
                  ELSE IF bind.kind = "Err"
                  THEN /\ Abort("AddrParseError")
                       /\ UNCHANGED <<gateway, addr, idx, probes>>
                  ELSE \E answered \in BOOLEAN :
                         /\ probes' = Append(probes, [bind |-> bind, answered |-> answered])
                         /\ IF answered
                               THEN /\ gateway' = GatewayOf(bind.ip)
                                    /\ addr' = [kind |-> "V4", ip |-> iface.ip, port |-> 0]
                                    /\ pc' = "found"
                                    /\ UNCHANGED <<idx, result>>
                               ELSE /\ idx' = idx + 1
                                    /\ UNCHANGED <<pc, result, gateway, addr>>
  /\ UNCHANGED <<table, options, ifaces, calls, table0, repeat, runs>>
  /\ UNCHANGED daemonVars

\* the port of the located address is left at 0
set_port_forgotten(sock, p) == sock

\* SocketAddr::set_port
set_port(sock, p) == [sock EXCEPT !.port = p]

\* run(): the rest of either arm: the port is set (None arm), the address
\* must be a SocketAddr::V4, the locals of the locator go out of scope
MatchV4 ==
  /\ pc = "found"
  /\ LET a == IF options.address = NoAddress THEN set_port(addr, port) ELSE addr
     IN  IF a.kind = "V4"
           THEN /\ addr' = a
                /\ pc' = "add1"
                /\ UNCHANGED result
           ELSE /\ Abort("No IPv4 given")
                /\ UNCHANGED addr
  /\ ifaces' = <<>>
  /\ idx' = 0
  /\ probes' = <<>>
  /\ UNCHANGED <<table, options, gateway, calls, table0, repeat, runs>>
  /\ UNCHANGED daemonVars

\* ---------------------------------------------------- the gateway's answers
AddErrors == {"PortInUse", "RequestError"}
RemoveErrors == {"NoSuchPortMapping", "RequestError"}

\* AddPortMapping on a gateway that follows the IGD rules: a free port is
\* mapped, a port mapped to another internal socket is a conflict, a port
\* mapped to the same internal socket is rewritten by some gateways and
\* reported as a conflict by others
ConformingAdd(tbl, proto, eport, sock) ==
  LET rows == RowsFor(tbl, proto, eport)
  IN  IF rows = {} THEN {"Ok"}
      ELSE IF \E m \in rows : m.internal # [ip |-> sock.ip, port |-> sock.port]
        THEN {"PortInUse"}
        ELSE {"Ok", "PortInUse"}

\* DeletePortMapping on a gateway that follows the IGD rules
ConformingRemove(tbl, proto, eport) ==
  IF RowsFor(tbl, proto, eport) = {} THEN {"NoSuchPortMapping"} ELSE {"Ok"}

\* the table after an add / a remove the gateway accepted
AfterAdd(tbl, proto, eport, sock, dur, desc) ==
  (tbl \ RowsFor(tbl, proto, eport)) \cup {Mapping(proto, eport, sock, dur, desc)}

AfterRemove(tbl, proto, eport) == tbl \ RowsFor(tbl, proto, eport)

\* an add that asks for a permanent lease instead of the entry's duration
AddRequestPermanentLease ==
  [op |-> "add", gateway |-> gateway, protocol |-> protocol, external |-> port,
   internal |-> addr, duration |-> 0, description |-> comment]

\* run(): the closure f: gateway.add_port(protocol, port, addr, duration, &comment)
AddRequest ==
  [op |-> "add", gateway |-> gateway, protocol |-> protocol, external |-> port,
   internal |-> addr, duration |-> duration, description |-> comment]

\* a remove that names the port with the other protocol
RemoveRequestOtherProtocol ==
  [op |-> "remove", gateway |-> gateway,
   protocol |-> IF protocol = "igd::TCP" THEN "igd::UDP" ELSE "igd::TCP", external |-> port,
   internal |-> NoSocket, duration |-> 0, description |-> ""]

\* run(): gateway.remove_port(protocol, port)
RemoveRequest ==
  [op |-> "remove", gateway |-> gateway, protocol |-> protocol, external |-> port,
   internal |-> NoSocket, duration |-> 0, description |-> ""]

\* one call reaches the gateway and is answered; a refused call changes nothing
Call(req, resp) ==
  LET tbl == table[req.gateway]
      conforming ==
        IF req.op = "add"
          THEN ConformingAdd(tbl, req.protocol, req.external, req.internal)
          ELSE ConformingRemove(tbl, req.protocol, req.external)
      after ==
        IF resp # "Ok" THEN tbl
        ELSE IF req.op = "add"
          THEN AfterAdd(tbl, req.protocol, req.external, req.internal, req.duration,
                        req.description)
          ELSE AfterRemove(tbl, req.protocol, req.external)
  IN  /\ calls' = Append(calls, [req |-> req, resp |-> resp, conforming |-> resp \in conforming])
      /\ table' = [table EXCEPT ![req.gateway] = after]

\* what the gateway may answer: the conforming answer, or any error
AddAnswers(req) ==
  ConformingAdd(table[req.gateway], req.protocol, req.external, req.internal) \cup AddErrors

RemoveAnswers(req) ==
  ConformingRemove(table[req.gateway], req.protocol, req.external) \cup RemoveErrors

\* the first add with no or_else: a conflict is returned like any error
FirstAddNoRetry ==
  /\ pc = "add1"
  /\ \E resp \in AddAnswers(AddRequest) :
       /\ Call(AddRequest, resp)
       /\ pc' = "done"
       /\ result' = IF resp = "Ok" THEN Ok ELSE Err(resp)
  /\ UNCHANGED <<options, gateway, addr, ifaces, idx, probes, table0, repeat, runs>>
  /\ UNCHANGED daemonVars

\* the first add with an or_else that deletes and retries on every error
FirstAddRetryAny ==
  /\ pc = "add1"
  /\ \E resp \in AddAnswers(AddRequest) :
       /\ Call(AddRequest, resp)
       /\ IF resp = "Ok"
            THEN pc' = "done" /\ result' = Ok
            ELSE pc' = "remove" /\ UNCHANGED result
  /\ UNCHANGED <<options, gateway, addr, ifaces, idx, probes, table0, repeat, runs>>
  /\ UNCHANGED daemonVars

\* run(): f(), the first add_port, and the match on its error
FirstAdd ==
  /\ pc = "add1"
  /\ \E resp \in AddAnswers(AddRequest) :
       /\ Call(AddRequest, resp)
       /\ IF resp = "Ok"
            THEN pc' = "done" /\ result' = Ok
            ELSE IF resp = "PortInUse"
              THEN pc' = "remove" /\ UNCHANGED result
              ELSE pc' = "done" /\ result' = Err(resp)
  /\ UNCHANGED <<options, gateway, addr, ifaces, idx, probes, table0, repeat, runs>>
  /\ UNCHANGED daemonVars

\* a conflict resolution that deletes the mapping and forgets the retry
RemovePortNoRetry ==
  /\ pc = "remove"
  /\ \E resp \in RemoveAnswers(RemoveRequest) :
       /\ Call(RemoveRequest, resp)
       /\ IF resp = "Ok"
            THEN pc' = "done" /\ result' = Ok
            ELSE Abort(resp)
  /\ UNCHANGED <<options, gateway, addr, ifaces, idx, probes, table0, repeat, runs>>
  /\ UNCHANGED daemonVars

\* run(): gateway.remove_port(protocol, port).unwrap()
RemovePort ==
  /\ pc = "remove"
  /\ \E resp \in RemoveAnswers(RemoveRequest) :
       /\ Call(RemoveRequest, resp)
       /\ IF resp = "Ok"
            THEN pc' = "add2" /\ UNCHANGED result
            ELSE Abort(resp)
  /\ UNCHANGED <<options, gateway, addr, ifaces, idx, probes, table0, repeat, runs>>
  /\ UNCHANGED daemonVars

\* a retry that deletes and retries again while the gateway reports a conflict
RetryAddAgain ==
  /\ pc = "add2"
  /\ Len(calls) < 7
  /\ \E resp \in AddAnswers(AddRequest) :
       /\ Call(AddRequest, resp)
       /\ IF resp = "PortInUse"
            THEN pc' = "remove" /\ UNCHANGED result
            ELSE pc' = "done" /\ result' = IF resp = "Ok" THEN Ok ELSE Err(resp)
  /\ UNCHANGED <<options, gateway, addr, ifaces, idx, probes, table0, repeat, runs>>
  /\ UNCHANGED daemonVars

\* a retry that puts the deleted rows back when the retried add fails
RetryAddRollback ==
  /\ pc = "add2"
  /\ \E resp \in AddAnswers(AddRequest) :
       /\ calls' = Append(calls, [req |-> AddRequest, resp |-> resp, conforming |-> TRUE])
       /\ table' = IF resp = "Ok"
                     THEN [table EXCEPT ![gateway] =
                             AfterAdd(table[gateway], protocol, port, addr, duration, comment)]
                     ELSE table0
       /\ pc' = "done"
       /\ result' = IF resp = "Ok" THEN Ok ELSE Err(resp)
  /\ UNCHANGED <<options, gateway, addr, ifaces, idx, probes, table0, repeat, runs>>
  /\ UNCHANGED daemonVars

\* run(): the second f(); its result is the result of or_else, then `?`
RetryAdd ==
  /\ pc = "add2"
  /\ \E resp \in AddAnswers(AddRequest) :
       /\ Call(AddRequest, resp)
       /\ pc' = "done"
       /\ result' = IF resp = "Ok" THEN Ok ELSE Err(resp)
  /\ UNCHANGED <<options, gateway, addr, ifaces, idx, probes, table0, repeat, runs>>
  /\ UNCHANGED daemonVars

\* a caller outside the daemon loop invokes run() with any options
CallRun == \E o \in Options : Start(o) /\ UNCHANGED daemonVars

\* -------------------------------------------------------------- the daemon
\* std::process::id() of a daemon process, and its decimal text
getpid(p) == IF p = "p1" THEN 4711 ELSE 4712

RECURSIVE Decimal(_)
Decimal(n) == IF n < 10 THEN <<n>> ELSE Append(Decimal(n \div 10), n % 10)

\* the mapping files: lists of distinct entries
Files ==
  { f \in SeqsUpTo(FileEntries, MaxEntries) :
      \A i, j \in 1..Len(f) : f[i] = f[j] => i = j }

\* the locals of run() in a process that has just started
FreshProcess ==
  /\ pc' = "idle"
  /\ result' = NoResult
  /\ gateway' = "none"
  /\ addr' = NoSocket
  /\ ifaces' = <<>>
  /\ idx' = 0
  /\ probes' = <<>>
  /\ calls' = <<>>

runLocals == <<pc, result, gateway, addr, ifaces, idx, probes, calls>>

\* an acquire that never looks at the lock
AcquireNoCheck(p, m) ==
  /\ proc[p] = "new"
  /\ held' = held \cup {p}
  /\ pidfile' = Decimal(getpid(p))
  /\ proc' = [proc EXCEPT ![p] = "starting"]
  /\ mode' = [mode EXCEPT ![p] = m]
  /\ FreshProcess
  /\ UNCHANGED <<table, options, table0, repeat, runs, file, list, pos, term>>

\* InstanceGuard::acquire at Starting: an exclusive, non-blocking lock on the
\* marker file; the holder writes its process identifier, anyone else ends
\* with AlreadyRunning
Acquire(p, m) ==
  /\ proc[p] = "new"
  /\ IF held = {}
       THEN /\ held' = {p}
            /\ pidfile' = Decimal(getpid(p))
            /\ proc' = [proc EXCEPT ![p] = "starting"]
            /\ mode' = [mode EXCEPT ![p] = m]
            /\ FreshProcess
       ELSE /\ proc' = [proc EXCEPT ![p] = "refused"]
            /\ UNCHANGED <<held, pidfile, mode, runLocals>>
  /\ UNCHANGED <<table, options, table0, repeat, runs, file, list, pos, term>>

\* a tick that keeps the list of the tick before it
TickLoadCached(p) ==
  /\ proc[p] \in {"starting", "sleeping"}
  /\ ~term[p]
  /\ pos' = 0
  /\ \/ /\ runs + Len(file) <= MaxRuns
        /\ list' = IF proc[p] = "starting" THEN file ELSE list
        /\ proc' = [proc EXCEPT ![p] = "running"]
     \/ /\ list' = <<>>
        /\ proc' = [proc EXCEPT ![p] = IF mode[p] = "oneshot" THEN "stopping" ELSE "sleeping"]
  /\ UNCHANGED <<table, options, table0, repeat, runs, runLocals, mode, held, pidfile, file,
                 term>>

\* a tick begins: the mapping list is read anew; a load failure ends the
\* tick (continuous) or the run (oneshot)
TickLoad(p) ==
  /\ proc[p] \in {"starting", "sleeping"}
  /\ ~term[p]
  /\ pos' = 0
  /\ \/ /\ runs + Len(file) <= MaxRuns
        /\ list' = file
        /\ proc' = [proc EXCEPT ![p] = "running"]
     \/ /\ list' = <<>>
        /\ proc' = [proc EXCEPT ![p] = IF mode[p] = "oneshot" THEN "stopping" ELSE "sleeping"]
  /\ UNCHANGED <<table, options, table0, repeat, runs, runLocals, mode, held, pidfile, file,
                 term>>

\* the loop hands the next entry of the list to the locator and reconciler;
\* an Err of the entry before it has been logged
Dispatch(p) ==
  /\ proc[p] = "running"
  /\ ~term[p]
  /\ pos < Len(list)
  /\ Start(list[pos + 1])
  /\ pos' = pos + 1
  /\ UNCHANGED <<proc, mode, held, pidfile, file, list, term>>

\* the last entry is done: oneshot goes to Stopping, continuous sleeps
TickEnd(p) ==
  /\ proc[p] = "running"
  /\ ~term[p]
  /\ pc \in {"idle", "done"}
  /\ pos = Len(list)
  /\ proc' = [proc EXCEPT ![p] = IF mode[p] = "oneshot" THEN "stopping" ELSE "sleeping"]
  /\ UNCHANGED <<table, options, table0, repeat, runs, runLocals, mode, held, pidfile, file,
                 list, pos, term>>

\* a termination signal arrives at a continuous daemon
Signal(p) ==
  /\ proc[p] \in {"starting", "running", "sleeping"}
  /\ mode[p] = "continuous"
  /\ ~term[p]
  /\ term' = [term EXCEPT ![p] = TRUE]
  /\ UNCHANGED <<table, options, table0, repeat, runs, runLocals, proc, mode, held, pidfile,
                 file, list, pos>>

\* the request is seen during the sleep or at an entry boundary
Cancel(p) ==
  /\ term[p]
  /\ \/ proc[p] \in {"starting", "sleeping"}
     \/ proc[p] = "running" /\ pc \in {"idle", "done"}
  /\ proc' = [proc EXCEPT ![p] = "stopping"]
  /\ UNCHANGED <<table, options, table0, repeat, runs, runLocals, mode, held, pidfile, file,
                 list, pos, term>>

\* an exit that forgets the guard
StopKeepLock(p) ==
  /\ proc[p] = "stopping"
  /\ proc' = [proc EXCEPT ![p] = "stopped"]
  /\ UNCHANGED <<table, options, table0, repeat, runs, runLocals, mode, held, pidfile, file,
                 list, pos, term>>

\* Stopping: InstanceGuard::release, then exit
Stop(p) ==
  /\ proc[p] = "stopping"
  /\ held' = held \ {p}
  /\ pidfile' = <<>>
  /\ proc' = [proc EXCEPT ![p] = "stopped"]
  /\ UNCHANGED <<table, options, table0, repeat, runs, runLocals, mode, file, list, pos, term>>

\* a panic inside run() unwinds through the loop: the process dies, and the
\* operating system drops its lock with its file descriptors
Crash(p) ==
  /\ proc[p] = "running"
  /\ pc = "panicked"
  /\ proc' = [proc EXCEPT ![p] = "aborted"]
  /\ held' = held \ {p}
  /\ UNCHANGED <<table, options, table0, repeat, runs, runLocals, mode, pidfile, file, list, pos,
                 term>>

\* the operator edits the mapping file while a tick is under way; the file is
\* read by TickLoad only, so an edit at any other moment is seen exactly as
\* one made at the entry boundary before it
EditFile ==
  /\ \E p \in Procs : proc[p] = "running"
  /\ pc \in {"idle", "done"}
  /\ \E f \in Files \ {file} : file' = f
  /\ UNCHANGED <<table, options, table0, repeat, runs, runLocals, proc, mode, held, pidfile,
                 list, pos, term>>

DaemonInit ==
  /\ table = [g \in Gateways |-> ForeignMappings]
  /\ pc = "idle"
  /\ options = CHOOSE o \in Options : TRUE
  /\ gateway = "none"
  /\ addr = NoSocket
  /\ ifaces = <<>>
  /\ idx = 0
  /\ probes = <<>>
  /\ calls = <<>>
  /\ result = NoResult
  /\ table0 = table
  /\ repeat = FALSE
  /\ runs = 0
  /\ DaemonIdle
  /\ file \in Files

DaemonNext ==
  \/ \E p \in Procs, m \in Modes : Acquire(p, m)
  \/ \E p \in Procs : TickLoad(p)
  \/ \E p \in Procs : Dispatch(p)
  \/ \E p \in Procs : TickEnd(p)
  \/ \E p \in Procs : Signal(p)
  \/ \E p \in Procs : Cancel(p)
  \/ \E p \in Procs : Stop(p)
  \/ \E p \in Procs : Crash(p)
  \/ EditFile
  \/ LocateExplicit
  \/ ScanStart
  \/ ScanStep
  \/ MatchV4
  \/ FirstAdd
  \/ RemovePort
  \/ RetryAdd

DaemonSpec == DaemonInit /\ [][DaemonNext]_vars

Next ==
  \/ CallRun
  \/ LocateExplicit
  \/ ScanStart
  \/ ScanStep
  \/ MatchV4
  \/ FirstAdd
  \/ RemovePort
  \/ RetryAdd

Spec == Init /\ [][Next]_vars

\* ================================================================== claims
\* the internal socket the entry asks for: the local address and spec.port
LocalIp == IF options.address = NoAddress THEN addr.ip ELSE ParseIp(options.address)
ExpectedInternal == [ip |-> LocalIp, port |-> options.port]
\* the gateway's name for the entry's protocol
ExpectedProtocol == [TCP |-> "igd::TCP", UDP |-> "igd::UDP"][options.protocol]
ExpectedRow ==
  Mapping(ExpectedProtocol, options.port, ExpectedInternal, options.duration, options.comment)

\* the rows of the located gateway for the entry's (protocol, port)
RowsBefore == RowsFor(table0[gateway], ExpectedProtocol, options.port)
RowsNow == RowsFor(table[gateway], ExpectedProtocol, options.port)

\* the run has issued its first gateway call
Called == Len(calls) >= 1
AllConforming == \A i \in 1..Len(calls) : calls[i].conforming
IsAdd(c) ==
  /\ c.req.op = "add"
  /\ c.req.gateway = gateway
  /\ c.req.protocol = ExpectedProtocol
  /\ c.req.external = options.port
IsRemove(c) ==
  /\ c.req.op = "remove"
  /\ c.req.gateway = gateway
  /\ c.req.protocol = ExpectedProtocol
  /\ c.req.external = options.port
Adds == {i \in 1..Len(calls) : calls[i].req.op = "add"}
Removes == {i \in 1..Len(calls) : calls[i].req.op = "remove"}

\* C1: when the located gateway has no mapping for the entry's (protocol, port)
\* and answers the add by the rules, run makes exactly one add call, returns
\* Ok, and the table then binds the external port to (local address, port).
C1_Applied ==
  (Called /\ RowsBefore = {} /\ calls[1].conforming) =>
    /\ pc = "done"
    /\ result = Ok
    /\ Len(calls) = 1
    /\ IsAdd(calls[1])
    /\ RowsNow # {}
    /\ \A m \in RowsNow : m.internal = ExpectedInternal

C1_Witness ==
  /\ pc = "done"
  /\ RowsBefore = {}
  /\ calls[1].conforming
  /\ result = Ok
  /\ options.address = NoAddress

\* C2: when the port is mapped to another internal socket and the gateway
\* answers by the rules, the calls are, in this order, an add refused with
\* PortInUse, one remove of that (protocol, port) and one retried add, and
\* run returns Ok after the third; there is no second remove or retry.
C2_ConflictSequence ==
  (Called /\ AllConforming /\ \E m \in RowsBefore : m.internal # ExpectedInternal) =>
    /\ pc \in {"remove", "add2", "done"}
    /\ Len(calls) = (CASE pc = "remove" -> 1 [] pc = "add2" -> 2 [] OTHER -> 3)
    /\ IsAdd(calls[1]) /\ calls[1].resp = "PortInUse"
    /\ Len(calls) >= 2 => IsRemove(calls[2]) /\ calls[2].resp = "Ok"
    /\ Len(calls) >= 3 => IsAdd(calls[3]) /\ calls[3].resp = "Ok"
    /\ pc = "done" => result = Ok

C2_Witness ==
  /\ pc = "done"
  /\ AllConforming
  /\ \E m \in RowsBefore : m.internal # ExpectedInternal
  /\ Len(calls) = 3
  /\ result = Ok

\* C3: after a run that succeeded by deleting and retrying, the gateway holds
\* exactly one row for the entry's (protocol, port), the entry's own row, not
\* the one that was there before.
C3_Overwritten ==
  (pc = "done" /\ result = Ok /\ Len(calls) = 3) =>
    /\ RowsNow = {ExpectedRow}
    /\ Cardinality(RowsNow) = 1

C3_Witness ==
  /\ pc = "done"
  /\ result = Ok
  /\ Len(calls) = 3
  /\ RowsBefore # {}
  /\ ExpectedRow \notin RowsBefore

\* C4: whatever the gateway answers, one run issues at most two adds and at
\* most one remove (add, remove, add in this order) and is over after the
\* third call; a failure of the retried add is the error run returns.
C4_BoundedRetry ==
  /\ Cardinality(Adds) <= 2
  /\ Cardinality(Removes) <= 1
  /\ Adds \subseteq {1, 3}
  /\ Removes \subseteq {2}
  /\ Len(calls) = 3 => pc = "done"
  /\ (Len(calls) = 3 /\ calls[3].resp # "Ok") => result = Err(calls[3].resp)

C4_Witness ==
  /\ pc = "done"
  /\ Len(calls) = 3
  /\ calls[1].resp = "PortInUse"
  /\ calls[3].resp = "PortInUse"
  /\ result = Err("PortInUse")

\* C5: when the first add fails with an error other than PortInUse, run
\* returns that error, has called neither remove nor add again, and every
\* gateway table is as it was when run started.
C5_OtherFailure ==
  (Called /\ calls[1].resp \notin {"Ok", "PortInUse"}) =>
    /\ pc = "done"
    /\ result = Err(calls[1].resp)
    /\ Len(calls) = 1
    /\ table = table0

C5_Witness ==
  /\ pc = "done"
  /\ Len(calls) = 1
  /\ calls[1].resp = "RequestError"
  /\ result = Err("RequestError")
  /\ RowsBefore # {}

\* C6: a run that repeats the options of the run before it, which returned
\* Ok, against a gateway that holds the entry's row and answers by the rules,
\* returns Ok too, and leaves every gateway table as the first run left it.
C6_Idempotent ==
  (repeat /\ Called /\ AllConforming /\ ExpectedRow \in RowsBefore) =>
    /\ pc \in {"remove", "add2", "done"}
    /\ pc = "done" => result = Ok /\ table = table0

C6_Witness ==
  /\ repeat
  /\ pc = "done"
  /\ AllConforming
  /\ ExpectedRow \in RowsBefore
  /\ Len(calls) = 3
  /\ result = Ok

\* an interface the locator may search: not loopback, and IPv4
Eligible(iface) == ~iface.loopback /\ iface.ip.v = 4

\* C7: with no address given, the searches issued so far are exactly the
\* eligible interfaces among those examined, in enumeration order, each bound
\* to the interface's address; only the last one can have been answered, and
\* then the locator holds that interface's gateway and IPv4 address.
C7_FirstEligible ==
  (options.address = NoAddress /\ pc \in {"scan", "found"}) =>
    LET n == IF pc = "found" THEN idx ELSE idx - 1
        examined == SelectSeq(SubSeq(ifaces, 1, n), Eligible)
    IN  /\ Len(probes) = Len(examined)
        /\ \A k \in 1..Len(probes) :
             /\ probes[k].bind = [kind |-> "V4", ip |-> examined[k].ip, port |-> 0]
             /\ probes[k].answered <=> (pc = "found" /\ k = Len(probes))
        /\ pc = "found" =>
             /\ idx \in 1..Len(ifaces)
             /\ Eligible(ifaces[idx])
             /\ gateway = GatewayOf(ifaces[idx].ip)
             /\ addr = [kind |-> "V4", ip |-> ifaces[idx].ip, port |-> 0]

C7_Witness ==
  /\ options.address = NoAddress
  /\ pc = "found"
  /\ idx = 2
  /\ ~Eligible(ifaces[1])
  /\ Len(probes) = 1

\* C8: with no address given, once every interface has been examined without
\* an answered search, run returns the error NoInterfaceReachable; it has not
\* panicked and has called no gateway.
C8_NoInterfaceReachable ==
  (options.address = NoAddress /\ runs >= 1 /\ pc # "scan" /\ idx > Len(ifaces)) =>
    /\ pc = "done"
    /\ result = Err("NoInterfaceReachable")
    /\ calls = <<>>
    /\ table = table0

\* C9: with an address given, a literal that does not parse with the port
\* makes run return the error AddressParse, and a search nobody answers
\* makes it return the error NoGateway; run does not panic.
C9_ExplicitErrors ==
  (options.address # NoAddress /\ pc \in {"done", "panicked"} /\ gateway = "none") =>
    /\ pc = "done"
    /\ result =
         IF ParseSocketAddr(FormatAddrPort(options.address, options.port)).kind = "Err"
           THEN Err("AddressParse")
           ELSE Err("NoGateway")

\* C10: an address that parses to a non-IPv4 socket address makes run return
\* the error NotIPv4; run does not panic.
C10_NotIPv4 ==
  (/\ options.address # NoAddress
   /\ ParseSocketAddr(FormatAddrPort(options.address, options.port)).kind = "V6"
   /\ gateway # "none"
   /\ pc \in {"done", "panicked"}) =>
    /\ pc = "done"
    /\ result = Err("NotIPv4")

\* C11: when the remove of the conflict resolution fails, run returns that
\* failure as an error after the second call; it has not panicked and has
\* not retried the add.
C11_RemoveFailure ==
  (Len(calls) >= 2 /\ calls[2].req.op = "remove" /\ calls[2].resp # "Ok") =>
    /\ pc = "done"
    /\ result = Err(calls[2].resp)
    /\ Len(calls) = 2

\* C17: every add call of a run, the first and the retried one, names the
\* located gateway, the entry's protocol, external port spec.port, internal
\* socket (local address, spec.port), spec.duration and spec.comment.
C17_SameParameters ==
  \A i \in Adds :
    /\ calls[i].req =
         [op |-> "add", gateway |-> gateway, protocol |-> ExpectedProtocol,
          external |-> options.port,
          internal |-> [kind |-> "V4", ip |-> LocalIp, port |-> options.port],
          duration |-> options.duration, description |-> options.comment]
    /\ calls[i].req.external = calls[i].req.internal.port

C17_Witness ==
  /\ pc = "done"
  /\ Len(calls) = 3
  /\ Adds = {1, 3}
  /\ options.address = NoAddress

\* C18: a search is issued only while no earlier search of the same locate
\* has been answered and no gateway call has been made, one interface at a
\* time; the first add is issued from a located gateway, and a gateway is
\* located only by a search that was answered.
C18_ShortCircuit ==
  [][/\ (probes' # probes /\ probes' # <<>>) =>
          /\ calls = <<>> /\ calls' = <<>>
          /\ Len(probes') = Len(probes) + 1
          /\ SubSeq(probes', 1, Len(probes)) = probes
          /\ \A k \in 1..Len(probes) : ~probes[k].answered
     /\ (pc' = "found") =>
          /\ probes' # <<>>
          /\ probes'[Len(probes')].answered
     /\ (pc' = "add1" /\ pc # "add1") => pc = "found"
     /\ (calls' # calls /\ calls' # <<>>) => pc \in {"add1", "remove", "add2"}]_vars

C18_Witness ==
  /\ pc = "found"
  /\ options.address = NoAddress
  /\ idx < Len(ifaces)
  /\ Eligible(ifaces[idx + 1])

\* the rows of a table that are not for the entry's (protocol, port)
OtherRows(tbl) == tbl \ RowsFor(tbl, ExpectedProtocol, options.port)

\* C19: during and after a run every gateway's rows for the other
\* (protocol, port) pairs are as they were when the run started, the row of
\* the same port with the other protocol included.
C19_Frame ==
  runs >= 1 => \A g \in Gateways : OtherRows(table[g]) = OtherRows(table0[g])

C19_Witness ==
  /\ pc = "done"
  /\ Len(calls) = 3
  /\ result = Ok
  /\ \E m \in table[gateway] : m.external = options.port /\ m.protocol # ExpectedProtocol

\* C20: when the remove succeeded and the retried add failed, run returns
\* that failure and the gateway holds no row at all for the entry's
\* (protocol, port): the row that was deleted is not put back.
C20_NoRollback ==
  (Len(calls) = 3 /\ calls[2].resp = "Ok" /\ calls[3].resp # "Ok") =>
    /\ pc = "done"
    /\ result = Err(calls[3].resp)
    /\ RowsNow = {}

C20_Witness ==
  /\ pc = "done"
  /\ Len(calls) = 3
  /\ calls[2].resp = "Ok"
  /\ calls[3].resp # "Ok"
  /\ RowsBefore # {}

\* ------------------------------------------------------ claims on the daemon
Alive == {"starting", "running", "sleeping", "stopping"}

\* C12: a failure on one entry does not keep the loop from the later entries
\* of the tick, nor, in continuous mode, from the next tick: while entries
\* remain or the mode is continuous, the entry in progress never takes the
\* process down
C12_LaterEntries ==
  \A p \in Procs :
    (proc[p] = "running" /\ (pos < Len(list) \/ mode[p] = "continuous")) => pc # "panicked"

\* C13: at most one process holds the instance lock, every live daemon is the
\* holder and the marker file carries the holder's identifier; an acquire
\* while the lock is held ends at once in AlreadyRunning, for good, and
\* changes nothing of the holder's tick, of the lock or of the marker file
C13_SingleInstance ==
  /\ [](/\ Cardinality(held) <= 1
        /\ \A p \in Procs : proc[p] \in Alive => p \in held
        /\ \A p \in Procs : proc[p] = "refused" => p \notin held
        /\ \A p \in held : pidfile = Decimal(getpid(p)))
  /\ [][\A p \in Procs :
          /\ (proc[p] = "new" /\ held # {} /\ proc'[p] # "new") =>
                /\ proc'[p] = "refused"
                /\ \A q \in Procs \ {p} : proc'[q] = proc[q]
                /\ UNCHANGED <<held, pidfile, mode, list, pos, term, file, table, runs>>
                /\ UNCHANGED runLocals
          /\ proc[p] = "refused" => proc'[p] = "refused"]_vars

C13_Witness ==
  /\ proc["p1"] = "running"
  /\ proc["p2"] = "refused"
  /\ pc = "remove"
  /\ held = {"p1"}
  /\ pidfile = <<4, 7, 1, 1>>

\* C14: a process that reached Stopped, after a oneshot tick or after a
\* termination signal, does not hold the lock, and the lock is free for a
\* process that has yet to start
C14_Released ==
  \A p \in Procs :
    proc[p] = "stopped" =>
      /\ p \notin held
      /\ \A q \in Procs : proc[q] = "new" => held = {}

C14_Witness ==
  /\ proc["p1"] = "stopped"
  /\ term["p1"]
  /\ proc["p2"] = "stopped"
  /\ mode["p2"] = "oneshot"
  /\ runs >= 1

\* C15: a tick works on the list read at its own start and no other; its
\* entries are handed over one at a time in list order, the next one only
\* when the run of the one before it has returned, and every step of a run
\* belongs to the entry last handed over
C15_Sequential ==
  /\ [](\A p \in Procs :
          (proc[p] = "running" /\ pos >= 1) => /\ pos <= Len(list)
                                               /\ options = list[pos])
  /\ [][\A p \in Procs :
          /\ (proc[p] \in {"starting", "sleeping"} /\ proc'[p] = "running") =>
                (list' = file /\ pos' = 0)
          /\ (proc[p] = "running" /\ proc'[p] = "running") =>
                /\ list' = list
                /\ pos' # pos =>
                     /\ pos' = pos + 1
                     /\ pc \in {"idle", "done"}
                     /\ options' = list[pos + 1]
                /\ pos' = pos => options' = options]_vars

C15_Witness ==
  /\ proc["p1"] = "running"
  /\ proc["p2"] = "new"
  /\ runs = 2
  /\ pos = 1
  /\ Len(list) = 1
  /\ options = list[1]
  /\ pc = "add1"
  /\ file # list
  /\ ~repeat

\* C16: a process that was asked to terminate is on its way to Stopped: it is
\* in the loop, stopping or stopped, and never ends any other way
C16_Cancellation ==
  \A p \in Procs : term[p] => proc[p] \in Alive \cup {"stopped"}
====
